---- MODULE Spec2Model ----
(***************************************************************************)
(* Model of the publish-next-function GitHub action (the index.js entry    *)
(* point with pull-request support): one run of run(), from loadConfig to  *)
(* core.setFailed or normal completion.  Every awaited file operation of   *)
(* package() is one step; an external command is started in one step and   *)
(* its await resumes in another, with the command resolved or rejected,    *)
(* chosen nondeterministically.                                            *)
(*                                                                         *)
(* Strings that the code cuts or joins (function-app name, storage-account *)
(* name, container name) are sequences of one-character strings.  JS       *)
(* undefined and "" are both modelled by the empty value, which is what    *)
(* the code's truthiness tests see; an undefined pull-request id is 0.     *)
(***************************************************************************)
EXTENDS Integers, Sequences, FiniteSets, TLC

VARIABLES
    input,          \* the action's inputs and the GitHub event context
    config,         \* the record loadConfig returned (NoConfig before)
    pc,             \* position of run() in its sequence of awaits
    calls,          \* external commands invoked so far, in order, with outcome
    attempt,        \* deploy's upload loop counter
    waits,          \* number of 5 s backoff waits taken
    failed,         \* number of core.setFailed calls
    failedMessage,  \* the message passed to core.setFailed
    reported,       \* the deployed address deploy has logged (None before)
    compiled,       \* the page modules the compiler emits, as discovered
    buildOutput,    \* buildOutput.pages once package has scanned them
    pageIndex,      \* position of package's current loop in its page list
    fs,             \* what package has written to the build output so far
    inflight        \* the external commands started and not yet settled

vars == <<input, config, pc, calls, attempt, waits, failed, failedMessage,
          reported, compiled, buildOutput, pageIndex, fs, inflight>>

\* the variables of package()
packaging == <<compiled, buildOutput, pageIndex, fs>>

---------------------------------------------------------------------------
(* Bounds of the model *)

\* longest tail of mixed characters appended to a generated base name
MaxTail == 3
\* longest base function-app name drawn
MaxBaseLen == 80
\* most page modules in a compiled page tree
MaxPages == 2

---------------------------------------------------------------------------
(* Characters and strings *)

Lower == {"a", "b", "c", "d", "e", "f", "g", "h", "i", "j", "k", "l", "m",
          "n", "o", "p", "q", "r", "s", "t", "u", "v", "w", "x", "y", "z"}
Upper == {"A", "B", "C", "D", "E", "F", "G", "H", "I", "J", "K", "L", "M",
          "N", "O", "P", "Q", "R", "S", "T", "U", "V", "W", "X", "Y", "Z"}
DigitChars == <<"0", "1", "2", "3", "4", "5", "6", "7", "8", "9">>
DigitSet == {DigitChars[i] : i \in 1..10}

\* the character class a-zA-Z0-9 of the regular expression in loadConfig
IsAlnum(c) == c \in Lower \cup Upper \cup DigitSet

Rep(c, n) == [i \in 1..n |-> c]

Min(a, b) == IF a < b THEN a ELSE b
Max(a, b) == IF a > b THEN a ELSE b

\* String.prototype.substring(0, n)
Substring0(s, n) == SubSeq(s, 1, Min(Max(n, 0), Len(s)))

\* s.replace(new RegExp("[^a-zA-Z0-9]+$"), "")
RECURSIVE StripTrailingNonAlnum(_)
StripTrailingNonAlnum(s) ==
    IF Len(s) = 0 \/ IsAlnum(s[Len(s)])
    THEN s
    ELSE StripTrailingNonAlnum(SubSeq(s, 1, Len(s) - 1))

\* `${n}` for a non-negative integer n
RECURSIVE NumToString(_)
NumToString(n) ==
    IF n < 10
    THEN <<DigitChars[n + 1]>>
    ELSE NumToString(n \div 10) \o <<DigitChars[(n % 10) + 1]>>

---------------------------------------------------------------------------
(* Program constants *)

\* the function-app name limit in loadConfig
NameLimit == 60
\* the storage-account name limit in loadConfig
StorageLimit == 24
\* deploy's maxAttempts
maxAttempts == 3

---------------------------------------------------------------------------
(* loadConfig *)

NoConfig == [loaded |-> FALSE]

\* JSON.parse of the pull-request input, as the truthiness loadConfig tests
ParsePullRequest(json) == json = "true"

\* mutant: the "-" of the suffix is not counted when the base name is cut
PullRequestNameSuffixUncounted(name, id) ==
    LET nameLength == NameLimit - Len(NumToString(id))
        trimmedName == StripTrailingNonAlnum(Substring0(name, nameLength))
    IN  trimmedName \o <<"-">> \o NumToString(id)

\* mutant: the name is cut after the suffix has been appended
PullRequestNameCutAfterJoin(name, id) ==
    Substring0(StripTrailingNonAlnum(name) \o <<"-">> \o NumToString(id), NameLimit)

\* config.name in pull-request mode: the base name cut to leave room for
\* the suffix, trailing non-alphanumerics removed, then "-<id>"
PullRequestName(name, id) ==
    LET pullRequestSuffix == <<"-">> \o NumToString(id)
        nameLength == NameLimit - Len(pullRequestSuffix)
        trimmedName == StripTrailingNonAlnum(Substring0(name, nameLength))
    IN  trimmedName \o <<"-">> \o NumToString(id)

\* mutant: the caller's name is cut before "pr" is prepended
PullRequestStorageAccountCutFirst(storageAccount) ==
    <<"p", "r">> \o Substring0(storageAccount, StorageLimit)

\* config.storageAccount in pull-request mode
PullRequestStorageAccount(storageAccount) ==
    Substring0(<<"p", "r">> \o storageAccount, StorageLimit)

\* config.assetsContainerName in pull-request mode
PullRequestContainer(assetsContainerName, id) ==
    assetsContainerName \o <<"-">> \o NumToString(id)

DefaultContainer == <<"a", "s", "s", "e", "t", "s">>

\* the properties loadConfig sets before its first validation of the fields
ContextOf(in) ==
    LET isPullRequest ==
            IF in.pullRequest # "" THEN ParsePullRequest(in.pullRequest) ELSE FALSE
    IN  [action |-> in.action,
         eventName |-> in.eventName,
         isPullRequest |-> isPullRequest,
         pullRequestId |->
            IF isPullRequest /\ in.eventName = "pull_request"
            THEN in.pullRequestId ELSE 0,
         appSecretsJSON |-> in.appSettings]

\* mutant: loadConfig without the test of the event name
LoadConfigErrorNoEventTest(in) ==
    LET c == in.configuration
    IN  IF ~c.present THEN "Configuration is missing"
        ELSE IF c.subscriptionId = ""
             THEN "Configuration value is missing: subscriptionId"
        ELSE IF c.resourceGroup = ""
             THEN "Configuration value is missing: resourceGroup"
        ELSE IF c.location = ""
             THEN "Configuration value is missing: location"
        ELSE IF c.name = <<>>
             THEN "Configuration value is missing: name"
        ELSE IF c.storageAccount = <<>>
             THEN "Configuration value is missing: storageAccount"
        ELSE ""

\* mutant: loadConfig without the test of the location
LoadConfigErrorNoLocationTest(in) ==
    LET c == in.configuration
        ctx == ContextOf(in)
    IN  IF ~c.present THEN "Configuration is missing"
        ELSE IF ctx.isPullRequest /\ ctx.eventName # "pull_request"
             THEN "eventName is not defined"
        ELSE IF c.subscriptionId = ""
             THEN "Configuration value is missing: subscriptionId"
        ELSE IF c.resourceGroup = ""
             THEN "Configuration value is missing: resourceGroup"
        ELSE IF c.name = <<>>
             THEN "Configuration value is missing: name"
        ELSE IF c.storageAccount = <<>>
             THEN "Configuration value is missing: storageAccount"
        ELSE ""

\* the first throw loadConfig reaches, "" when it reaches none
LoadConfigError(in) ==
    LET c == in.configuration
        ctx == ContextOf(in)
    IN  IF ~c.present THEN "Configuration is missing"
        ELSE IF ctx.isPullRequest /\ ctx.eventName # "pull_request"
             \* the message template reads the undeclared variable eventName
             THEN "eventName is not defined"
        ELSE IF c.subscriptionId = ""
             THEN "Configuration value is missing: subscriptionId"
        ELSE IF c.resourceGroup = ""
             THEN "Configuration value is missing: resourceGroup"
        ELSE IF c.location = ""
             THEN "Configuration value is missing: location"
        ELSE IF c.name = <<>>
             THEN "Configuration value is missing: name"
        ELSE IF c.storageAccount = <<>>
             THEN "Configuration value is missing: storageAccount"
        ELSE ""

\* mutant: no default for the build output directory
BuildOutputDirAsSupplied(c) == c.buildOutputDir

\* the build output directory: the caller's, "build" without one
BuildOutputDir(c) == IF c.buildOutputDir = "" THEN "build" ELSE c.buildOutputDir

\* the record loadConfig returns when it does not throw
LoadedConfig(in) ==
    LET c == in.configuration
        ctx == ContextOf(in)
        container ==
            IF c.assetsContainerName = <<>> THEN DefaultContainer
            ELSE c.assetsContainerName
        rewrite == ctx.isPullRequest /\ ctx.pullRequestId # 0
    IN  [loaded |-> TRUE,
         subscriptionId |-> c.subscriptionId,
         resourceGroup |-> c.resourceGroup,
         location |-> c.location,
         plan |-> c.plan,
         buildOutputDir |-> BuildOutputDir(c),
         action |-> ctx.action,
         eventName |-> ctx.eventName,
         isPullRequest |-> ctx.isPullRequest,
         pullRequestId |-> ctx.pullRequestId,
         appSecretsJSON |-> ctx.appSecretsJSON,
         name |->
            IF rewrite THEN PullRequestName(c.name, ctx.pullRequestId)
            ELSE c.name,
         storageAccount |->
            IF rewrite THEN PullRequestStorageAccount(c.storageAccount)
            ELSE c.storageAccount,
         assetsContainerName |->
            IF rewrite THEN PullRequestContainer(container, ctx.pullRequestId)
            ELSE container]

---------------------------------------------------------------------------
(* External commands *)

None == <<>>

\* the app-settings input: whether it is a non-empty string, whether
\* JSON.parse accepts it, and the key/value pairs of the object, in order
AppSettings(present, valid, mapping) ==
    [present |-> present, valid |-> valid, mapping |-> mapping]

NoAppSettings == AppSettings(FALSE, TRUE, <<>>)

\* the reduce of configureAppSettings: "key=value " for each key, joined
RECURSIVE FormattedAppSettings(_)
FormattedAppSettings(mapping) ==
    IF mapping = <<>> THEN <<>>
    ELSE LET n == Len(mapping)
         IN  FormattedAppSettings(SubSeq(mapping, 1, n - 1))
                \o mapping[n][1] \o <<"=">> \o mapping[n][2] \o <<" ">>

\* the words the shell of exec makes of an unquoted stretch of a command
\* line: it is cut at the spaces
RECURSIVE ShellWords(_)
ShellWords(chars) ==
    IF chars = <<>> THEN <<>>
    ELSE IF Head(chars) = " " THEN ShellWords(Tail(chars))
    ELSE LET stop == IF \E i \in DOMAIN chars : chars[i] = " "
                     THEN CHOOSE i \in DOMAIN chars :
                            /\ chars[i] = " "
                            /\ \A j \in 1..(i - 1) : chars[j] # " "
                     ELSE Len(chars) + 1
         IN  <<SubSeq(chars, 1, stop - 1)>>
                \o ShellWords(SubSeq(chars, stop, Len(chars)))

\* mutant: the function app is always created on a consumption plan
FunctionAppOptionConsumption(cfg) ==
    [option |-> "--consumption-plan-location", value |-> cfg.location]

\* the plan option of `az functionapp create`
FunctionAppOption(cfg) ==
    IF cfg.plan # ""
    THEN [option |-> "--plan", value |-> cfg.plan]
    ELSE [option |-> "--consumption-plan-location", value |-> cfg.location]

\* the resource names each command line carries (None: not on the line)
Args(cmd, cfg) ==
    LET a(name, storageAccount, container, option) ==
            [name |-> name, storageAccount |-> storageAccount,
             container |-> container, option |-> option, value |-> "",
             source |-> None, settings |-> None]
    IN  CASE cmd = "az group create" -> a(None, None, None, "")
          [] cmd = "az storage account create" ->
                a(None, cfg.storageAccount, None, "")
          [] cmd = "az storage container create" ->
                a(None, cfg.storageAccount, cfg.assetsContainerName, "")
          [] cmd = "az storage container set-permission" ->
                a(None, cfg.storageAccount, cfg.assetsContainerName, "")
          [] cmd = "az functionapp create" ->
                [a(cfg.name, cfg.storageAccount, None, FunctionAppOption(cfg).option)
                    EXCEPT !.value = FunctionAppOption(cfg).value]
          [] cmd = "az functionapp config appsettings set WEBSITE_RUN_FROM_PACKAGE" ->
                a(cfg.name, None, None, "")
          [] cmd = "az functionapp deployment source config-zip" ->
                [a(cfg.name, None, None, "")
                    EXCEPT !.source = <<cfg.buildOutputDir, "package.zip">>]
          [] cmd = "az storage blob upload-batch _next" ->
                [a(None, cfg.storageAccount, cfg.assetsContainerName, "_next")
                    EXCEPT !.source = <<cfg.buildOutputDir, "assets">>]
          [] cmd = "az storage blob upload-batch public" ->
                a(None, cfg.storageAccount, cfg.assetsContainerName, "public")
          [] cmd = "az functionapp config appsettings set" ->
                [a(cfg.name, None, None, "") EXCEPT !.settings =
                    ShellWords(FormattedAppSettings(cfg.appSecretsJSON.mapping))]
          [] cmd = "az functionapp delete" -> a(cfg.name, None, None, "")
          [] cmd = "az storage container delete" ->
                a(None, cfg.storageAccount, cfg.assetsContainerName, "")
          [] cmd = "az monitor app-insights component delete" ->
                a(cfg.name, None, None, "")
          [] OTHER -> a(None, None, None, "")

\* the message of the error a rejected exec promise carries
ExecError(cmd) == "Command failed: " \o cmd

\* the call of exec: the command runs, its promise is pending
Start(cmd) ==
    /\ cmd \notin inflight
    /\ inflight' = inflight \cup {cmd}
    /\ UNCHANGED <<pc, calls, failed, failedMessage>>

\* the await of a started command resumes: its promise settled with ok
Invoke(cmd, ok) ==
    /\ cmd \in inflight
    /\ inflight' = inflight \ {cmd}
    /\ calls' = Append(calls, [cmd |-> cmd, ok |-> ok] @@ Args(cmd, config))

\* mutant: run()'s catch swallows the error
FailUnreported(message) ==
    /\ pc' = "failed"
    /\ UNCHANGED <<failed, failedMessage>>

\* an error reaching run()'s catch: core.setFailed(error.message)
Fail(message) ==
    /\ pc' = "failed"
    /\ failed' = failed + 1
    /\ failedMessage' = message

Continue(next) ==
    /\ pc' = next
    /\ UNCHANGED <<failed, failedMessage>>

\* a step made of one awaited command: on rejection the catch block throws
\* an error with the message thrown, which ends the run
SingleAttempt(cmd, next, thrown) ==
    /\ \/ Start(cmd)
       \/ \E ok \in BOOLEAN :
            /\ Invoke(cmd, ok)
            /\ IF ok THEN Continue(next) ELSE Fail(thrown)
    /\ UNCHANGED <<input, config, attempt, waits, reported, packaging>>

---------------------------------------------------------------------------
(* Pages: NextBuild and the templates *)

\* route segments, tagged as the bracket syntax of the file names tags them
Literal(name) == [kind |-> "literal", name |-> name]
Parameter(name) == [kind |-> "parameter", name |-> name]
CatchAll(name) == [kind |-> "catchAll", name |-> name]
OptionalCatchAll(name) == [kind |-> "optionalCatchAll", name |-> name]

\* one compiled module of the page tree: its path, the segments of its
\* route, whether its top-level name is a reserved entry of the framework,
\* whether the compiler pre-rendered it
Module(sourcePath, routeSegments, reserved, prerendered) ==
    [sourcePath |-> sourcePath, routeSegments |-> routeSegments,
     reserved |-> reserved, prerendered |-> prerendered]

IsCatchAll(seg) == seg.kind \in {"catchAll", "optionalCatchAll"}

\* a catch-all segment stands before the last position
Malformed(segs) == \E i \in 1..(Len(segs) - 1) : IsCatchAll(segs[i])

\* reserved entries are Special, pre-rendered modules Static, the rest Dynamic
KindOf(mod) ==
    IF mod.reserved THEN "Special"
    ELSE IF mod.prerendered THEN "Static"
    ELSE "Dynamic"

\* mutant: a module both reserved and pre-rendered is taken as it comes
ClassifyErrorAcceptsBoth(mods) ==
    IF \E i \in DOMAIN mods : Malformed(mods[i].routeSegments)
    THEN "MalformedRoute"
    ELSE ""

\* mutant: the position of the catch-all segments is not looked at
ClassifyErrorAcceptsMalformed(mods) ==
    IF \E i \in DOMAIN mods : mods[i].reserved /\ mods[i].prerendered
    THEN "ConfigurationError"
    ELSE ""

\* the error classification ends with, "" when it ends with none: the
\* modules are looked at as a whole before any page is returned
ClassifyError(mods) ==
    IF \E i \in DOMAIN mods : Malformed(mods[i].routeSegments)
    THEN "MalformedRoute"
    ELSE IF \E i \in DOMAIN mods : mods[i].reserved /\ mods[i].prerendered
    THEN "ConfigurationError"
    ELSE ""

\* the page NextBuild makes of a module
Page(mod) ==
    [sourcePath |-> mod.sourcePath,
     routeSegments |-> mod.routeSegments,
     kind |-> KindOf(mod),
     isStatic |-> mod.prerendered,
     isSpecial |-> mod.reserved]

\* buildOutput.pages, in the order of discovery
Classify(mods) == [i \in DOMAIN mods |-> Page(mods[i])]

\* mutant: a parameter captures as a catch-all does
PatternSegmentGreedyParameter(seg) ==
    [capture |->
        CASE seg.kind = "literal" -> "none"
          [] seg.kind = "parameter" -> "oneOrMore"
          [] seg.kind = "catchAll" -> "oneOrMore"
          [] seg.kind = "optionalCatchAll" -> "zeroOrMore",
     name |-> seg.name]

\* pattern synthesis: a literal is copied, a parameter captures one path
\* segment, a catch-all one or more, an optional catch-all zero or more
PatternSegment(seg) ==
    [capture |->
        CASE seg.kind = "literal" -> "none"
          [] seg.kind = "parameter" -> "one"
          [] seg.kind = "catchAll" -> "oneOrMore"
          [] seg.kind = "optionalCatchAll" -> "zeroOrMore",
     name |-> seg.name]

Pattern(segs) == [i \in DOMAIN segs |-> PatternSegment(segs[i])]

NoMatch == [matched |-> FALSE, captures |-> {}]

\* the match of a request path, a sequence of path segments, against a
\* pattern: whether it matches and what each named capture holds
RECURSIVE Match(_, _)
Match(pattern, path) ==
    IF pattern = <<>> THEN [matched |-> path = <<>>, captures |-> {}]
    ELSE LET h == Head(pattern)
             rest == IF path = <<>> THEN NoMatch
                     ELSE Match(Tail(pattern), Tail(path))
         IN  CASE h.capture = "none" ->
                    IF path # <<>> /\ Head(path) = h.name THEN rest ELSE NoMatch
               [] h.capture = "one" ->
                    IF rest.matched
                    THEN [matched |-> TRUE,
                          captures |-> rest.captures \cup {<<h.name, <<Head(path)>>>>}]
                    ELSE NoMatch
               [] h.capture = "oneOrMore" ->
                    IF path # <<>>
                    THEN [matched |-> TRUE, captures |-> {<<h.name, path>>}]
                    ELSE NoMatch
               [] h.capture = "zeroOrMore" ->
                    [matched |-> TRUE, captures |-> {<<h.name, path>>}]

\* the row of the proxy table for a page
RouteEntry(assetsUrl, page) ==
    [pattern |-> Pattern(page.routeSegments),
     page |-> page.sourcePath,
     target |->
        IF page.isStatic
        THEN [kind |-> "asset", base |-> assetsUrl]
        ELSE [kind |-> "function", base |-> None]]

Wildcards(pattern) ==
    Cardinality({i \in DOMAIN pattern : pattern[i].capture # "none"})

LeadingLiterals(pattern) ==
    Cardinality({i \in DOMAIN pattern :
                    \A j \in 1..i : pattern[j].capture = "none"})

EndsInCatchAll(pattern) ==
    \E i \in DOMAIN pattern : pattern[i].capture \in {"oneOrMore", "zeroOrMore"}

\* the comparator of the ordering: fewer wildcards first, then more leading
\* literals first, then parameter-only patterns before catch-all patterns
SortsBefore(p, q) ==
    \/ Wildcards(p) < Wildcards(q)
    \/ /\ Wildcards(p) = Wildcards(q)
       /\ \/ LeadingLiterals(p) > LeadingLiterals(q)
          \/ /\ LeadingLiterals(p) = LeadingLiterals(q)
             /\ ~EndsInCatchAll(p)
             /\ EndsInCatchAll(q)

\* stable sort: each entry goes behind the entries that do not sort after it
RECURSIVE StableSort(_)
StableSort(entries) ==
    IF entries = <<>> THEN <<>>
    ELSE LET n == Len(entries)
             sorted == StableSort(SubSeq(entries, 1, n - 1))
             e == entries[n]
             k == Cardinality({i \in DOMAIN sorted :
                                  ~SortsBefore(e.pattern, sorted[i].pattern)})
         IN  SubSeq(sorted, 1, k) \o <<e>> \o SubSeq(sorted, k + 1, n - 1)

IsRoutable(page) == ~page.isSpecial

IsDynamic(page) == ~page.isStatic /\ ~page.isSpecial

\* mutant: two dynamic pages of one pattern both get their row
ProxiesErrorAcceptsAmbiguous(pages) == ""

\* the error proxiesJson throws, "" when it throws none
ProxiesError(pages) ==
    IF \E i, j \in DOMAIN pages :
          /\ i # j
          /\ IsDynamic(pages[i])
          /\ IsDynamic(pages[j])
          /\ Pattern(pages[i].routeSegments) = Pattern(pages[j].routeSegments)
    THEN "AmbiguousRoute"
    ELSE ""

\* mutant: every page of the list gets a row
ProxiesJsonOfAllPages(assetsUrl, pages) ==
    StableSort([i \in DOMAIN pages |-> RouteEntry(assetsUrl, pages[i])])

\* the proxy table proxiesJson generates from the whole page list
ProxiesJson(assetsUrl, pages) ==
    LET routable == SelectSeq(pages, IsRoutable)
    IN  StableSort([i \in DOMAIN routable |-> RouteEntry(assetsUrl, routable[i])])

---------------------------------------------------------------------------
(* run *)

\* mutant: teardown on every closed event, pull-request mode or not
IsTeardownAnyClosed(cfg) == cfg.action = "closed"

\* run()'s test for the teardown path
IsTeardown(cfg) == cfg.isPullRequest /\ cfg.action = "closed"

LoadConfig ==
    /\ pc = "start"
    /\ IF LoadConfigError(input) = ""
       THEN /\ config' = LoadedConfig(input)
            /\ Continue("cli")
       ELSE /\ config' = config
            /\ Fail(LoadConfigError(input))
    /\ UNCHANGED <<input, calls, attempt, waits, reported, packaging, inflight>>

\* checkAzureCliIsAvailable rethrows as new Error(error), then run() branches
CheckAzureCliIsAvailable ==
    /\ pc = "cli"
    /\ \/ Start("az --version")
       \/ \E ok \in BOOLEAN :
            /\ Invoke("az --version", ok)
            /\ IF ok
               THEN Continue(IF IsTeardown(config) THEN "clean" ELSE "build")
               ELSE Fail("Error: " \o ExecError("az --version"))
    /\ UNCHANGED <<input, config, attempt, waits, reported, packaging>>

\* the message of the error nextBuild rejects with
NextBuildError == "next build error"

\* require of next/dist/build fails, or nextBuild resolves or rejects
BuildOutcomes == {"ok", "no module", "build error"}

\* mutant: a rejected build is not waited for
BuildIgnoresFailure ==
    /\ pc = "build"
    /\ \/ Start("next build")
       \/ \E outcome \in BuildOutcomes :
            IF outcome = "no module"
            THEN /\ "next build" \notin inflight
                 /\ UNCHANGED <<calls, inflight>>
                 /\ Fail("Unable to load next module. Make sure next is in your package.json and you have run 'npm install'.")
            ELSE /\ Invoke("next build", outcome = "ok")
                 /\ Continue("package")
    /\ UNCHANGED <<input, config, attempt, waits, reported, packaging>>

Build ==
    /\ pc = "build"
    /\ \/ Start("next build")
       \/ \E outcome \in BuildOutcomes :
            IF outcome = "no module"
            THEN /\ "next build" \notin inflight
                 /\ UNCHANGED <<calls, inflight>>
                 /\ Fail("Unable to load next module. Make sure next is in your package.json and you have run 'npm install'.")
            ELSE /\ Invoke("next build", outcome = "ok")
                 /\ IF outcome = "ok" THEN Continue("package")
                    ELSE Fail(NextBuildError)
    /\ UNCHANGED <<input, config, attempt, waits, reported, packaging>>

\* mutant: the catch block throws an error of its own
RethrownReplaced(cmd) == "Unable to provision"

\* a catch block that throws the error it caught
Rethrown(cmd) == ExecError(cmd)

\* the message of an error of the file operations or of the archiver
PackageError == "package error"

\* a file of the pages tree or of the assets tree; page is "" for the
\* files that belong to no page
File(name, page) == [file |-> name, page |-> page]

NoFiles ==
    [pages |-> {}, proxies |-> None, assets |-> {},
     archived |-> FALSE, archive |-> {}, packagename |-> "", removed |-> FALSE]

\* mutant: special pages are wrapped too
SsrPagesSpecialIncluded(pages) == SelectSeq(pages, LAMBDA p : ~p.isStatic)

\* the pages package wraps in a handler
SsrPages(pages) == SelectSeq(pages, IsDynamic)

\* the pages package copies to the assets tree
StaticPages(pages) == SelectSeq(pages, LAMBDA p : p.isStatic)

\* what package() leaves alone
PackageFrame ==
    UNCHANGED <<input, config, calls, attempt, waits, reported, compiled, inflight>>

\* new NextBuild(sourcePath).init(buildPagesOutputPath)
ScanBuildOutput ==
    /\ pc = "package"
    /\ \E ok \in BOOLEAN :
        IF ~ok THEN Fail(PackageError) /\ UNCHANGED <<buildOutput, pageIndex>>
        ELSE IF ClassifyError(compiled) # ""
        THEN Fail(ClassifyError(compiled)) /\ UNCHANGED <<buildOutput, pageIndex>>
        ELSE /\ buildOutput' = Classify(compiled)
             /\ pageIndex' = 1
             /\ Continue("wrap")
    /\ UNCHANGED fs
    /\ PackageFrame

\* the files one iteration of the handler loop has written when it ends
\* with outcome
WrappedFiles(page, outcome) ==
    CASE outcome = "copy failed" -> {}
      [] outcome = "handler failed" -> {File("module", page.sourcePath)}
      [] outcome = "function.json failed" ->
            {File("module", page.sourcePath), File("index.js", page.sourcePath)}
      [] outcome = "ok" ->
            {File("module", page.sourcePath), File("index.js", page.sourcePath),
             File("function.json", page.sourcePath)}

\* one iteration of the handler loop: copy, index.js, function.json
WrapPage ==
    /\ pc = "wrap"
    /\ LET ssr == SsrPages(buildOutput)
       IN  IF pageIndex > Len(ssr)
           THEN /\ Continue("proxies")
                /\ UNCHANGED <<pageIndex, fs>>
           ELSE \E outcome \in {"ok", "copy failed", "handler failed",
                                "function.json failed"} :
                /\ fs' = [fs EXCEPT !.pages = @ \cup WrappedFiles(ssr[pageIndex], outcome)]
                /\ IF outcome = "ok"
                   THEN Continue("wrap") /\ pageIndex' = pageIndex + 1
                   ELSE Fail(PackageError) /\ pageIndex' = pageIndex
    /\ UNCHANGED buildOutput
    /\ PackageFrame

\* mutant: the address names the default container
AssetsUrlDefaultContainer(cfg) ==
    <<"https://">> \o cfg.storageAccount \o <<".blob.core.windows.net/">>
        \o DefaultContainer \o <<"/">>

\* the address of the assets container handed to proxiesJson
AssetsUrl(cfg) ==
    <<"https://">> \o cfg.storageAccount \o <<".blob.core.windows.net/">>
        \o cfg.assetsContainerName \o <<"/">>

\* proxies.json: proxiesJson throws, or the file is written or not
WriteProxies ==
    /\ pc = "proxies"
    /\ IF ProxiesError(buildOutput) # ""
       THEN Fail(ProxiesError(buildOutput)) /\ fs' = fs
       ELSE \E ok \in BOOLEAN :
            IF ok
            THEN /\ fs' = [fs EXCEPT
                            !.pages = @ \cup {File("proxies.json", "")},
                            !.proxies = ProxiesJson(AssetsUrl(config), buildOutput)]
                 /\ Continue("host")
            ELSE Fail(PackageError) /\ fs' = fs
    /\ UNCHANGED <<buildOutput, pageIndex>>
    /\ PackageFrame

WriteHost ==
    /\ pc = "host"
    /\ \E ok \in BOOLEAN :
        IF ok
        THEN /\ fs' = [fs EXCEPT !.pages = @ \cup {File("host.json", "")}]
             /\ Continue("static")
        ELSE Fail(PackageError) /\ fs' = fs
    /\ UNCHANGED <<buildOutput, pageIndex>>
    /\ PackageFrame

\* .next/static to the assets tree, then the loop of the static pages starts
CopyStaticAssets ==
    /\ pc = "static"
    /\ \E ok \in BOOLEAN :
        IF ok
        THEN /\ fs' = [fs EXCEPT !.assets = @ \cup {File("static", "")}]
             /\ pageIndex' = 1
             /\ Continue("staticPages")
        ELSE Fail(PackageError) /\ UNCHANGED <<fs, pageIndex>>
    /\ UNCHANGED buildOutput
    /\ PackageFrame

\* one iteration of the loop that copies the static pages
CopyStaticPage ==
    /\ pc = "staticPages"
    /\ LET static == StaticPages(buildOutput)
       IN  IF pageIndex > Len(static)
           THEN /\ Continue("archive")
                /\ UNCHANGED <<pageIndex, fs>>
           ELSE \E ok \in BOOLEAN :
                IF ok
                THEN /\ fs' = [fs EXCEPT !.assets =
                                @ \cup {File("pages", static[pageIndex].sourcePath)}]
                     /\ pageIndex' = pageIndex + 1
                     /\ Continue("staticPages")
                ELSE Fail(PackageError) /\ UNCHANGED <<fs, pageIndex>>
    /\ UNCHANGED buildOutput
    /\ PackageFrame

\* mutant: an error of the archiver is not waited for
ArchivePagesIgnoresFailure ==
    /\ pc = "archive"
    /\ \E ok \in BOOLEAN :
        /\ fs' = IF ok THEN [fs EXCEPT !.archived = TRUE, !.archive = fs.pages]
                  ELSE fs
        /\ Continue("packagename")
    /\ UNCHANGED <<buildOutput, pageIndex>>
    /\ PackageFrame

\* package.zip: every file of the pages tree, stored
ArchivePages ==
    /\ pc = "archive"
    /\ \E ok \in BOOLEAN :
        IF ok
        THEN /\ fs' = [fs EXCEPT !.archived = TRUE, !.archive = fs.pages]
             /\ Continue("packagename")
        ELSE Fail(PackageError) /\ fs' = fs
    /\ UNCHANGED <<buildOutput, pageIndex>>
    /\ PackageFrame

WritePackageName ==
    /\ pc = "packagename"
    /\ \E ok \in BOOLEAN :
        IF ok
        THEN /\ fs' = [fs EXCEPT !.packagename = "package.zip"]
             /\ Continue("remove")
        ELSE Fail(PackageError) /\ fs' = fs
    /\ UNCHANGED <<buildOutput, pageIndex>>
    /\ PackageFrame

\* fse.remove(buildPagesOutputPath), the last await of package()
RemovePagesTree ==
    /\ pc = "remove"
    /\ \E ok \in BOOLEAN :
        IF ok
        THEN /\ fs' = [fs EXCEPT !.pages = {}, !.removed = TRUE]
             /\ Continue("group")
        ELSE Fail(PackageError) /\ fs' = fs
    /\ UNCHANGED <<buildOutput, pageIndex>>
    /\ PackageFrame

---------------------------------------------------------------------------
(* deploy *)

CreateResourceGroup ==
    /\ pc = "group"
    /\ SingleAttempt("az group create", "account", Rethrown("az group create"))

\* mutant: the container creation is skipped
CreateStorageAccountSkipsContainer ==
    /\ pc = "account"
    /\ SingleAttempt("az storage account create", "permission",
                     Rethrown("az storage account create"))

CreateStorageAccount ==
    /\ pc = "account"
    /\ SingleAttempt("az storage account create", "container",
                     Rethrown("az storage account create"))

CreateStorageContainer ==
    /\ pc = "container"
    /\ SingleAttempt("az storage container create", "permission",
                     Rethrown("az storage container create"))

SetContainerPermission ==
    /\ pc = "permission"
    /\ SingleAttempt("az storage container set-permission",
                  "functionapp", Rethrown("az storage container set-permission"))

CreateFunctionApp ==
    /\ pc = "functionapp"
    /\ SingleAttempt("az functionapp create", "runFromPackage",
                     Rethrown("az functionapp create"))

EnablePackageDeploy ==
    /\ pc = "runFromPackage"
    /\ \/ /\ Start("az functionapp config appsettings set WEBSITE_RUN_FROM_PACKAGE")
          /\ attempt' = attempt
       \/ \E ok \in BOOLEAN :
            /\ Invoke("az functionapp config appsettings set WEBSITE_RUN_FROM_PACKAGE", ok)
            /\ IF ok
               THEN Continue("upload") /\ attempt' = 1
               ELSE /\ Fail(Rethrown("az functionapp config appsettings set WEBSITE_RUN_FROM_PACKAGE"))
                    /\ attempt' = attempt
    /\ UNCHANGED <<input, config, waits, reported, packaging>>

\* the upload loop's condition
LoopContinues(a) == a <= maxAttempts

\* mutant: the catch block retries after the last attempt too
WillRetryOffByOne(a) == a <= maxAttempts

\* mutant: the catch block never waits for another attempt
WillRetryNever(a) == FALSE

\* the catch block's test for another attempt
WillRetry(a) == a + 1 <= maxAttempts

UploadPackage ==
    /\ pc = "upload"
    /\ IF ~LoopContinues(attempt)
       THEN /\ UNCHANGED <<calls, inflight>>
            /\ Continue("assets")
       ELSE \/ Start("az functionapp deployment source config-zip")
            \/ \E ok \in BOOLEAN :
                /\ Invoke("az functionapp deployment source config-zip", ok)
                /\ IF ok THEN Continue("assets")
                   ELSE IF WillRetry(attempt) THEN Continue("backoff")
                   ELSE Fail("Could not deploy package to Azure function app")
    /\ UNCHANGED <<input, config, attempt, waits, reported, packaging>>

\* the 5 s wait, then the loop's ++attempt
Backoff ==
    /\ pc = "backoff"
    /\ waits' = waits + 1
    /\ attempt' = attempt + 1
    /\ Continue("upload")
    /\ UNCHANGED <<input, config, calls, reported, packaging, inflight>>

AssetsError == "Could not upload assets to Azure blob storage"

PublicAssetsError == "Could not upload public assets to Azure blob storage"

\* mutant: a failed asset upload is swallowed
UploadAssetsIgnoresFailure ==
    /\ pc = "assets"
    /\ \/ Start("az storage blob upload-batch _next")
       \/ \E ok \in BOOLEAN :
            /\ Invoke("az storage blob upload-batch _next", ok)
            /\ Continue("public")
    /\ UNCHANGED <<input, config, attempt, waits, reported, packaging>>

\* mutant: the asset upload is started and not awaited
UploadAssetsNotAwaited ==
    /\ pc = "assets"
    /\ "az storage blob upload-batch _next" \notin inflight
    /\ inflight' = inflight \cup {"az storage blob upload-batch _next"}
    /\ pc' = "public"
    /\ UNCHANGED <<input, config, calls, attempt, waits, failed, failedMessage,
                   reported, packaging>>

\* mutant: a failed asset upload is followed by the deletions of clean
UploadAssetsRollsBack ==
    /\ pc = "assets"
    /\ \/ Start("az storage blob upload-batch _next")
       \/ \E ok \in BOOLEAN :
            /\ Invoke("az storage blob upload-batch _next", ok)
            /\ IF ok THEN Continue("public") ELSE Continue("clean")
    /\ UNCHANGED <<input, config, attempt, waits, reported, packaging>>

UploadAssets ==
    /\ pc = "assets"
    /\ SingleAttempt("az storage blob upload-batch _next", "public", AssetsError)

\* the address deploy logs after its last upload
DeployedUrl(name) == <<"https://">> \o name \o <<".azurewebsites.net/">>

\* deploy's last step: the upload, then the log of the deployed address
UploadPublicAssets ==
    /\ pc = "public"
    /\ \/ /\ Start("az storage blob upload-batch public")
          /\ reported' = reported
       \/ \E ok \in BOOLEAN :
            /\ Invoke("az storage blob upload-batch public", ok)
            /\ IF ok
               THEN /\ reported' = DeployedUrl(config.name)
                    /\ Continue("appSettings")
               ELSE /\ reported' = reported
                    /\ Fail(PublicAssetsError)
    /\ UNCHANGED <<input, config, attempt, waits, packaging>>

\* the message of the SyntaxError JSON.parse throws
JsonParseError == "Unexpected token in JSON"

ConfigureAppSettings ==
    /\ pc = "appSettings"
    /\ IF ~config.appSecretsJSON.present
       THEN /\ UNCHANGED <<calls, inflight>>
            /\ Continue("done")
       ELSE IF ~config.appSecretsJSON.valid
       THEN /\ UNCHANGED <<calls, inflight>>
            /\ Fail(JsonParseError)
       ELSE \/ Start("az functionapp config appsettings set")
            \/ \E ok \in BOOLEAN :
                /\ Invoke("az functionapp config appsettings set", ok)
                /\ IF ok THEN Continue("done")
                   ELSE Fail(ExecError("az functionapp config appsettings set"))
    /\ UNCHANGED <<input, config, attempt, waits, reported, packaging>>

---------------------------------------------------------------------------
(* clean *)

DeleteFunctionApp ==
    /\ pc = "clean"
    /\ SingleAttempt("az functionapp delete", "cleanContainer",
                     Rethrown("az functionapp delete"))

DeleteStorageContainer ==
    /\ pc = "cleanContainer"
    /\ SingleAttempt("az storage container delete",
                  "cleanExtension", Rethrown("az storage container delete"))

AddInsightsExtension ==
    /\ pc = "cleanExtension"
    /\ SingleAttempt("az extension add", "cleanInsights",
                     Rethrown("az extension add"))

DeleteAppInsights ==
    /\ pc = "cleanInsights"
    /\ SingleAttempt("az monitor app-insights component delete",
                  "done", Rethrown("az monitor app-insights component delete"))

---------------------------------------------------------------------------
(* Inputs *)

Str3(a, b, c) == <<a, b, c>>

\* configurations of the orchestration runs: every required field present
\* or missing, short names, a storage-account name on each side of the limit
Configurations ==
    {[present |-> FALSE, subscriptionId |-> "", resourceGroup |-> "",
      location |-> "", name |-> <<>>, storageAccount |-> <<>>, plan |-> "",
      assetsContainerName |-> <<>>, buildOutputDir |-> ""]}
    \cup
    [present : {TRUE},
     subscriptionId : {"", "sub"},
     resourceGroup : {"", "rg"},
     location : {"", "westeurope"},
     name : {<<>>, Str3("a", "p", "p")},
     storageAccount : {<<>>, Str3("s", "t", "a"), Rep("s", StorageLimit - 2),
                       Rep("s", StorageLimit - 3) \o Str3("t", "u", "v")},
     plan : {"", "plan"},
     assetsContainerName : {<<>>, Str3("p", "r", "e")},
     buildOutputDir : {""}]

\* a configuration with every required field and no optional one
CompleteConfiguration ==
    [present |-> TRUE, subscriptionId |-> "sub", resourceGroup |-> "rg",
     location |-> "westeurope", name |-> Str3("a", "p", "p"),
     storageAccount |-> Str3("s", "t", "a"), plan |-> "",
     assetsContainerName |-> <<>>, buildOutputDir |-> ""]

\* configurations that name the build output directory
OutputDirConfigurations ==
    {[CompleteConfiguration EXCEPT !.buildOutputDir = "out"],
     [CompleteConfiguration EXCEPT !.buildOutputDir = "out",
                                   !.assetsContainerName = Str3("p", "r", "e"),
                                   !.plan = "plan"]}

Chars1(a) == <<a>>

\* {"KEY": "v", "B": "w"}
PlainSettings ==
    AppSettings(TRUE, TRUE,
                <<<<Str3("K", "E", "Y"), Chars1("v")>>, <<Chars1("B"), Chars1("w")>>>>)

\* {"KEY": "a b"}
SpacedSettings ==
    AppSettings(TRUE, TRUE, <<<<Str3("K", "E", "Y"), Str3("a", " ", "b")>>>>)

\* {}
EmptySettings == AppSettings(TRUE, TRUE, <<>>)

\* a string JSON.parse rejects
InvalidSettings == AppSettings(TRUE, FALSE, <<>>)

AppSettingsInputs == {NoAppSettings, PlainSettings}

OtherAppSettingsInputs == {SpacedSettings, EmptySettings, InvalidSettings}

Events == {"push", "pull_request"}
Actions == {"", "opened", "closed"}
PullRequestInputs == {"", "false", "true"}
PullRequestIds == {7, 1234567890}

\* the page modules the compiler can emit
IndexHtml == Module("index.html", <<>>, FALSE, TRUE)
IdJs == Module("[id].js", <<Parameter("id")>>, FALSE, FALSE)
AppJs == Module("_app.js", <<Literal("_app")>>, TRUE, FALSE)

\* a static index page, a dynamic [id] page and the app shell
EndToEndModules == <<IndexHtml, IdJs, AppJs>>

\* payload.pull_request exists on pull_request events only
Inputs(configurations, pullRequestInputs, events, actions, ids, appSettings) ==
    {in \in [configuration : configurations,
             pullRequest : pullRequestInputs,
             eventName : events,
             action : actions,
             pullRequestId : ids \cup {0},
             appSettings : appSettings] :
        (in.pullRequestId = 0) <=> (in.eventName # "pull_request")}

InitRun ==
    /\ config = NoConfig
    /\ pc = "start"
    /\ calls = <<>>
    /\ attempt = 0
    /\ waits = 0
    /\ failed = 0
    /\ failedMessage = ""
    /\ reported = None
    /\ buildOutput = None
    /\ pageIndex = 0
    /\ fs = NoFiles
    /\ inflight = {}

\* push runs with the optional inputs: output directory, app settings
OtherInputs ==
    Inputs({CompleteConfiguration} \cup OutputDirConfigurations, {""}, {"push"},
           {""}, {}, AppSettingsInputs \cup OtherAppSettingsInputs)

\* pull_request events whose payload.pull_request carries no id, or the
\* id 0: config.pullRequestId is falsy
MissingIdInputs ==
    [configuration : {CompleteConfiguration},
     pullRequest : {"true"},
     eventName : {"pull_request"},
     action : {"opened", "closed"},
     pullRequestId : {0},
     appSettings : {NoAppSettings}]

Init ==
    /\ input \in Inputs(Configurations, PullRequestInputs, Events, Actions,
                        PullRequestIds, AppSettingsInputs)
                    \cup OtherInputs \cup MissingIdInputs
    /\ compiled = EndToEndModules
    /\ InitRun

Next ==
    \/ LoadConfig
    \/ CheckAzureCliIsAvailable
    \/ Build
    \/ ScanBuildOutput
    \/ WrapPage
    \/ WriteProxies
    \/ WriteHost
    \/ CopyStaticAssets
    \/ CopyStaticPage
    \/ ArchivePages
    \/ WritePackageName
    \/ RemovePagesTree
    \/ CreateResourceGroup
    \/ CreateStorageAccount
    \/ CreateStorageContainer
    \/ SetContainerPermission
    \/ CreateFunctionApp
    \/ EnablePackageDeploy
    \/ UploadPackage
    \/ Backoff
    \/ UploadAssets
    \/ UploadPublicAssets
    \/ ConfigureAppSettings
    \/ DeleteFunctionApp
    \/ DeleteStorageContainer
    \/ AddInsightsExtension
    \/ DeleteAppInsights

Spec == Init /\ [][Next]_vars

---------------------------------------------------------------------------
(* Inputs of the name derivation: long base names around the cut *)

TailChars == {"Z", "1", "-", "_"}

Tails == UNION {[1..n -> TailChars] : n \in 0..MaxTail}

\* lengths of the run of "a" before the tail: the tail straddles every cut
\* position 60 - Len("-<id>") of the ids below
PrefixLens == {0} \cup ((NameLimit - 14)..(NameLimit - 2))

\* s followed by "a" up to the longest base name
Padded(s) == s \o Rep("a", MaxBaseLen - Len(s))

\* a run of "a", a tail of mixed characters, and nothing more or a run of
\* "a" up to the longest base name
WideNames ==
    LET short == {Rep("a", k) \o t : k \in PrefixLens, t \in Tails}
    IN  {n \in short \cup {Padded(s) : s \in short} :
            Len(n) >= 1 /\ Len(n) <= MaxBaseLen}

\* ids of 1, 2, 9 and 10 digits, some the decimal suffix of another
WidePullRequestIds == {7, 17, 234567890, 1234567890, 2147483647}

WideConfigurations ==
    [present : {TRUE},
     subscriptionId : {"sub"},
     resourceGroup : {"rg"},
     location : {"westeurope"},
     name : WideNames,
     storageAccount : {Str3("s", "t", "a")},
     plan : {""},
     assetsContainerName : {<<>>, Str3("c", "-", "1")},
     buildOutputDir : {""}]

InitNames ==
    /\ input \in Inputs(WideConfigurations, {"true"}, {"pull_request"},
                        {"opened"}, WidePullRequestIds, {NoAppSettings})
    /\ compiled = EndToEndModules
    /\ InitRun

\* loadConfig applied to each of these inputs
SpecNames == InitNames /\ [][LoadConfig]_vars

---------------------------------------------------------------------------
(* Inputs of the packaging: page trees of every kind of module *)

BlogAJs == Module("blog/a.js", <<Literal("blog"), Literal("a")>>, FALSE, FALSE)
BlogAIndexJs ==
    Module("blog/a/index.js", <<Literal("blog"), Literal("a")>>, FALSE, FALSE)
BlogSlugJs ==
    Module("blog/[slug].js", <<Literal("blog"), Parameter("slug")>>, FALSE, FALSE)
BlogAllJs ==
    Module("blog/[...all].js", <<Literal("blog"), CatchAll("all")>>, FALSE, FALSE)
BlogTwoJs ==
    Module("blog/[a]/[b].js",
           <<Literal("blog"), Parameter("a"), Parameter("b")>>, FALSE, FALSE)
AllBlogJs ==
    Module("[...all]/blog.js", <<CatchAll("all"), Literal("blog")>>, FALSE, FALSE)
OptionalFirstJs ==
    Module("[[...opt]]/x.js", <<OptionalCatchAll("opt"), Literal("x")>>,
           FALSE, FALSE)
ErrorHtml == Module("_error.html", <<Literal("_error")>>, TRUE, TRUE)
AllJs == Module("[...all].js", <<CatchAll("all")>>, FALSE, FALSE)

PageModules ==
    {IndexHtml, IdJs, AppJs, BlogAJs, BlogAIndexJs, BlogSlugJs, BlogAllJs,
     BlogTwoJs, AllBlogJs, OptionalFirstJs, ErrorHtml, AllJs}

\* the page trees of at most n modules, in every order of discovery
PageTrees(n) ==
    {t \in UNION {[1..k -> PageModules] : k \in 0..n} :
        \A i, j \in DOMAIN t : i # j => t[i] # t[j]}

\* pull-request runs, opened and closed, over each page tree
InitPages ==
    /\ input \in Inputs({CompleteConfiguration}, {"true"}, {"pull_request"},
                        {"opened", "closed"}, {7}, {NoAppSettings})
    /\ compiled \in PageTrees(MaxPages)
    /\ InitRun

SpecPages == InitPages /\ [][Next]_vars

---------------------------------------------------------------------------
(* Vocabulary of the properties *)

UploadCmd == "az functionapp deployment source config-zip"
AppSettingsCmd == "az functionapp config appsettings set"

\* deploy's commands in the order of the orchestrator's step list
DeployOrder ==
    <<"az group create",
      "az storage account create",
      "az storage container create",
      "az storage container set-permission",
      "az functionapp create",
      "az functionapp config appsettings set WEBSITE_RUN_FROM_PACKAGE",
      UploadCmd,
      "az storage blob upload-batch _next",
      "az storage blob upload-batch public",
      AppSettingsCmd>>

DeployCmds == {DeployOrder[i] : i \in DOMAIN DeployOrder}

Rank(cmd) == CHOOSE i \in DOMAIN DeployOrder : DeployOrder[i] = cmd

DeleteCmds ==
    {"az functionapp delete", "az storage container delete",
     "az monitor app-insights component delete"}

CallsOf(cmd) == {i \in DOMAIN calls : calls[i].cmd = cmd}

Invoked(cmd) == CallsOf(cmd) # {} \/ cmd \in inflight

Succeeded(cmd) == \E i \in CallsOf(cmd) : calls[i].ok

Ended == pc \in {"done", "failed"}

---------------------------------------------------------------------------
(* C1 *)

\* C1: the function-package upload is invoked at most 3 times per run and
\* only after every earlier attempt failed; when attempts 1 and 2 fail and
\* attempt 3 succeeds deploy goes on to the asset upload; when all 3 fail
\* the run ends failed and nothing is invoked after the third attempt.
C1_UploadRetry ==
    LET ups == CallsOf(UploadCmd)
    IN  /\ Cardinality(ups) <= 3
        /\ \A i, j \in ups : i < j => ~calls[i].ok
        /\ \A i \in ups :
              calls[i].ok =>
                /\ Len(calls) = i => pc = "assets" /\ failed = 0
                /\ Len(calls) > i => calls[i + 1].cmd = "az storage blob upload-batch _next"
        /\ (Cardinality(ups) = 3 /\ \A i \in ups : ~calls[i].ok) =>
              /\ pc = "failed"
              /\ failed = 1
              /\ failedMessage = "Could not deploy package to Azure function app"
              /\ calls[Len(calls)].cmd = UploadCmd
              /\ ~Invoked("az storage blob upload-batch _next")
              /\ ~Invoked("az storage blob upload-batch public")
              /\ ~Invoked(AppSettingsCmd)

\* attempts 1 and 2 failed, attempt 3 succeeded, and deploy is at the asset upload
C1_Witness ==
    LET ups == CallsOf(UploadCmd)
    IN  /\ Cardinality(ups) = 3
        /\ calls[Len(calls)].cmd = UploadCmd
        /\ calls[Len(calls)].ok
        /\ pc = "assets"

---------------------------------------------------------------------------
(* C2 *)

\* the deploy commands invoked so far, in order
RECURSIVE DeployCalls(_)
DeployCalls(cs) ==
    IF cs = <<>> THEN <<>>
    ELSE IF Head(cs).cmd \in DeployCmds
         THEN <<Head(cs)>> \o DeployCalls(Tail(cs))
         ELSE DeployCalls(Tail(cs))

\* C2: in a deploy-mode run the steps are invoked in the order resource
\* group, storage account, container, container permission, function app,
\* run-from-package, package upload, asset upload, public-asset upload,
\* application settings; a step is invoked only after every earlier step
\* has succeeded, and a run that completes has invoked them all (the
\* application settings when the input is given).
C2_DeployOrder ==
    LET d == DeployCalls(calls)
    IN  /\ \A j \in DOMAIN d :
              \A r \in 1..(Rank(d[j].cmd) - 1) :
                  \E i \in 1..(j - 1) : d[i].cmd = DeployOrder[r] /\ d[i].ok
        /\ \A i, j \in DOMAIN d :
              i < j => /\ Rank(d[i].cmd) <= Rank(d[j].cmd)
                       /\ Rank(d[i].cmd) = Rank(d[j].cmd) => d[i].cmd = UploadCmd
        /\ (pc = "done" /\ d # <<>>) =>
              \A r \in DOMAIN DeployOrder :
                  (DeployOrder[r] # AppSettingsCmd \/ input.appSettings.present)
                      => Succeeded(DeployOrder[r])

\* a complete deploy with all ten steps invoked
C2_Witness ==
    /\ pc = "done"
    /\ \A r \in DOMAIN DeployOrder : Succeeded(DeployOrder[r])

---------------------------------------------------------------------------
(* C3 *)

SingleAttemptCmds == DeployCmds \ {UploadCmd, AppSettingsCmd}

\* C3: when a deploy command other than the package upload fails, it has
\* been invoked exactly once, it is the last command of the run, and the
\* run has ended failed.
C3_SingleAttempt ==
    \A cmd \in SingleAttemptCmds :
        \A i \in CallsOf(cmd) :
            ~calls[i].ok =>
                /\ Cardinality(CallsOf(cmd)) = 1
                /\ Len(calls) = i
                /\ pc = "failed"
                /\ failed = 1

\* the public-asset upload failed
C3_Witness ==
    /\ calls # <<>>
    /\ calls[Len(calls)].cmd = "az storage blob upload-batch public"
    /\ ~calls[Len(calls)].ok
    /\ pc = "failed"

---------------------------------------------------------------------------
(* C4, C5 *)

\* C4: once teardown has started, a run that has ended has attempted all
\* three deletions (function app, asset container, app-insights), whatever
\* the outcome of each.
C4_AllDeletionsAttempted ==
    (Invoked("az functionapp delete") /\ Ended) =>
        \A cmd \in DeleteCmds : Invoked(cmd)

\* the failure message msg reports the failed deletion cmd
Reports(msg, cmd) == msg = ExecError(cmd)

\* C5: when deletions fail in teardown, the failure is surfaced only after
\* all three deletions have been attempted, the run ends failed, and the
\* reported failure accounts for every deletion that failed.
C5_FailuresAggregated ==
    LET failedDeletes ==
            {cmd \in DeleteCmds : \E i \in CallsOf(cmd) : ~calls[i].ok}
    IN  failedDeletes # {} =>
            /\ failed > 0 => \A cmd \in DeleteCmds : Invoked(cmd)
            /\ Ended =>
                /\ pc = "failed"
                /\ \A cmd \in failedDeletes : Reports(failedMessage, cmd)

---------------------------------------------------------------------------
(* C6, C7, C8 *)

\* the run was configured in pull-request mode
PullRequestMode ==
    /\ config.loaded
    /\ input.pullRequest = "true"
    /\ input.pullRequestId # 0

IdSuffix(id) == <<"-">> \o NumToString(id)

EndsWith(s, sfx) ==
    /\ Len(s) >= Len(sfx)
    /\ SubSeq(s, Len(s) - Len(sfx) + 1, Len(s)) = sfx

\* C6: in pull-request mode, for a base name of at most 80 characters and
\* an id of at most 10 digits, the derived function-app name has at most
\* 60 characters, ends with "-<id>" in full, and the part before the suffix
\* is a prefix of the base name that does not end in a non-alphanumeric
\* character ("-" and "_" are the non-alphanumerics drawn).
C6_NameLength ==
    (/\ PullRequestMode
     /\ Len(input.configuration.name) <= 80
     /\ Len(NumToString(input.pullRequestId)) <= 10) =>
        LET n == config.name
            sfx == IdSuffix(input.pullRequestId)
            b == Len(n) - Len(sfx)
        IN  /\ Len(n) <= 60
            /\ EndsWith(n, sfx)
            /\ SubSeq(n, 1, b) = SubSeq(input.configuration.name, 1, b)
            /\ b > 0 => n[b] \notin {"-", "_"}

\* a base name of 60 characters or more, cut, and then stripped
C6_Witness ==
    /\ PullRequestMode
    /\ Len(input.configuration.name) >= 60
    /\ Len(config.name) < 60
    /\ Len(NumToString(input.pullRequestId)) = 10

\* the configuration another run derives from the same inputs and the id id2
OtherRun(id2) == LoadedConfig([input EXCEPT !.pullRequestId = id2])

\* C7: in pull-request mode, a run with the same configuration and another
\* pull-request id derives another function-app name and another
\* asset-container name.
C7_NoCollision ==
    PullRequestMode =>
        \A id2 \in WidePullRequestIds \ {input.pullRequestId} :
            /\ OtherRun(id2).name # config.name
            /\ OtherRun(id2).assetsContainerName # config.assetsContainerName

\* a base name long enough to be cut, and another id of another length
C7_Witness ==
    /\ PullRequestMode
    /\ Len(input.configuration.name) > 60
    /\ \E id2 \in WidePullRequestIds :
          Len(NumToString(id2)) # Len(NumToString(input.pullRequestId))

\* "pr" followed by the caller's storage-account name, cut to 24 characters
ExpectedStorageAccount ==
    LET joined == <<"p", "r">> \o input.configuration.storageAccount
    IN  IF Len(joined) > 24 THEN SubSeq(joined, 1, 24) ELSE joined

---------------------------------------------------------------------------
(* C9, C10 *)

TeardownRequested == input.pullRequest = "true" /\ input.action = "closed"

DeployPathCmds == {"next build"} \cup DeployCmds

CleanCmds == DeleteCmds \cup {"az extension add"}

\* C9: the run takes the teardown path exactly when pull-request mode is on
\* and the event action is "closed": only then is a delete command invoked,
\* then build, package, deploy and app-settings are never invoked, and a
\* run that has passed the CLI check is on one path or the other accordingly.
C9_TeardownDispatch ==
    /\ (\E cmd \in CleanCmds : Invoked(cmd)) => TeardownRequested
    /\ pc \in {"clean", "cleanContainer", "cleanExtension", "cleanInsights"}
          => TeardownRequested
    /\ TeardownRequested =>
          /\ \A cmd \in DeployPathCmds : ~Invoked(cmd)
          /\ buildOutput = None
          /\ fs = NoFiles
          /\ pc \in {"start", "cli", "clean", "cleanContainer", "cleanExtension",
                     "cleanInsights", "done", "failed"}
    /\ (TeardownRequested /\ Succeeded("az --version")) =>
          pc = "clean" \/ Invoked("az functionapp delete")
    /\ (~TeardownRequested /\ Succeeded("az --version")) =>
          pc = "build" \/ Invoked("next build") \/ pc = "failed"

\* the teardown path has been taken and its first deletion invoked
C9_Witness ==
    /\ TeardownRequested
    /\ Invoked("az functionapp delete")

\* C10: when the pull-request input is true and the event is not
\* pull_request, no external command is ever invoked and the run, once
\* loadConfig has returned, has failed.
C10_WrongEventFails ==
    (input.pullRequest = "true" /\ input.eventName # "pull_request") =>
        /\ calls = <<>>
        /\ inflight = {}
        /\ pc \in {"start", "failed"}
        /\ pc = "failed" => failed = 1

\* a complete configuration, pull-request mode on a push event: failed
C10_Witness ==
    /\ input.pullRequest = "true"
    /\ input.eventName = "push"
    /\ LoadConfigError([input EXCEPT !.pullRequest = "false"]) = ""
    /\ pc = "failed"
    /\ failed = 1

---------------------------------------------------------------------------
(* C11 *)

RequiredFields ==
    {"subscriptionId", "resourceGroup", "location", "name", "storageAccount"}

\* the required fields the configuration input leaves out or leaves empty
MissingFields ==
    LET c == input.configuration
    IN  {f \in RequiredFields :
            \/ f = "subscriptionId" /\ c.subscriptionId = ""
            \/ f = "resourceGroup" /\ c.resourceGroup = ""
            \/ f = "location" /\ c.location = ""
            \/ f = "name" /\ c.name = <<>>
            \/ f = "storageAccount" /\ c.storageAccount = <<>>}

ConfigurationInvalid == ~input.configuration.present \/ MissingFields # {}

\* the message names the configuration input or a field that is missing
NamesMissingValue(msg) ==
    IF ~input.configuration.present
    THEN msg = "Configuration is missing"
    ELSE \E f \in MissingFields : msg = "Configuration value is missing: " \o f

\* pull-request mode is requested on an event that is not pull_request
WrongEvent == input.pullRequest = "true" /\ input.eventName # "pull_request"

\* C11 as stated: when the configuration input is absent or a required
\* field is missing or empty, the run fails with a message naming the
\* missing value.
C11_NamesMissingValue ==
    (ConfigurationInvalid /\ pc = "failed") => NamesMissingValue(failedMessage)

\* C11: when the configuration input is absent or a required field is
\* missing or empty, no external command is ever invoked, not even the CLI
\* check, the run is marked failed once and never goes further; the message
\* names the missing value, except that with a configuration present and
\* pull-request mode requested on another event than pull_request the
\* message is the one of the event test, which comes before the fields.
C11_InvalidConfigurationFails ==
    ConfigurationInvalid =>
        /\ calls = <<>>
        /\ inflight = {}
        /\ pc \in {"start", "failed"}
        /\ failed <= 1
        /\ pc = "failed" =>
              /\ failed = 1
              /\ (input.configuration.present /\ WrongEvent)
                    \/ NamesMissingValue(failedMessage)

\* two fields are missing, the location one of them, and the run has failed
C11_Witness ==
    /\ input.configuration.present
    /\ ~WrongEvent
    /\ MissingFields = {"location", "storageAccount"}
    /\ pc = "failed"
    /\ failedMessage = "Configuration value is missing: location"

---------------------------------------------------------------------------
(* C12 *)

NoModuleError ==
    "Unable to load next module. Make sure next is in your package.json and you have run 'npm install'."

\* the message of the error a step throws when its command cmd is rejected
ThrownMessage(cmd) ==
    CASE cmd = "az --version" -> "Error: " \o ExecError(cmd)
      [] cmd = "next build" -> NextBuildError
      [] cmd = UploadCmd -> "Could not deploy package to Azure function app"
      [] cmd = "az storage blob upload-batch _next" -> AssetsError
      [] cmd = "az storage blob upload-batch public" -> PublicAssetsError
      [] OTHER -> ExecError(cmd)

\* the messages of the errors package() ends with
PackageErrors ==
    {PackageError, "MalformedRoute", "ConfigurationError", "AmbiguousRoute"}

\* the rejected command calls[i] is not followed by another attempt
Unrecovered(i) ==
    /\ ~calls[i].ok
    /\ calls[i].cmd = UploadCmd =>
          Cardinality({j \in CallsOf(UploadCmd) : j <= i}) = maxAttempts

\* the run is marked failed exactly when it ended failed, once, with the
\* message of the error the failing step threw
FailedOutcome ==
    /\ failed <= 1
    /\ failed = 1 <=> pc = "failed"
    /\ \A i \in DOMAIN calls : Unrecovered(i) => pc = "failed" /\ i = Len(calls)
    /\ pc = "failed" =>
          \/ calls = <<>> /\ failedMessage # ""
          \/ /\ calls # <<>>
             /\ ~calls[Len(calls)].ok
             /\ failedMessage = ThrownMessage(calls[Len(calls)].cmd)
          \/ /\ calls # <<>>
             /\ calls[Len(calls)].ok
             /\ \/ /\ calls[Len(calls)].cmd = "az --version"
                   /\ failedMessage = NoModuleError
                \/ /\ calls[Len(calls)].cmd = "next build"
                   /\ failedMessage \in PackageErrors
                \/ /\ calls[Len(calls)].cmd = "az storage blob upload-batch public"
                   /\ failedMessage = JsonParseError

\* C12 as stated: a run in which no step fails is not marked failed and has
\* reported the address of the deployed application.
C12_EndpointReported ==
    pc = "done" => failed = 0 /\ reported = DeployedUrl(config.name)

\* C12: every run ends with one outcome. It is marked failed exactly when a
\* step failed without being recovered, exactly once, with the message of
\* the error that step threw; a run in which no step fails is not marked
\* failed and, when it is a deploy, has reported
\* https://<name>.azurewebsites.net/ (a teardown reports no address); a run
\* that has not ended can always take its next step.
C12_OneOutcome ==
    /\ FailedOutcome
    /\ pc = "done" =>
          /\ failed = 0
          /\ \A i \in DOMAIN calls : calls[i].ok \/ calls[i].cmd = UploadCmd
          /\ IF TeardownRequested
             THEN reported = None
             ELSE reported = DeployedUrl(config.name)
    /\ Ended \/ ENABLED Next

\* a deploy that recovered from a failed upload and reported its address
C12_Witness ==
    /\ pc = "done"
    /\ failed = 0
    /\ reported # None
    /\ \E i \in CallsOf(UploadCmd) : ~calls[i].ok

---------------------------------------------------------------------------
(* C14 *)

\* C14: at no point of a run are two external commands in flight; a command
\* is started only when none is in flight; during the backoff wait between
\* two upload attempts, and once the run has ended, none is in flight.
C14_Sequential ==
    /\ Cardinality(inflight) <= 1
    /\ pc = "backoff" => inflight = {}
    /\ Ended => inflight = {}

\* the third upload attempt is in flight, after two attempts and two waits
C14_Witness ==
    /\ inflight = {UploadCmd}
    /\ waits = 2
    /\ Cardinality(CallsOf(UploadCmd)) = 2

---------------------------------------------------------------------------
(* C15 *)

HandlerFiles == {"module", "index.js", "function.json"}

\* some file of a handler directory of the page at src is among files
HasHandlerFile(files, src) ==
    \E f \in files : f.page = src /\ f.file \in HandlerFiles

\* the whole handler directory of the page at src is among files
HasHandler(files, src) == \A n \in HandlerFiles : File(n, src) \in files

\* the positions of package() behind its handler loop, the tree in place
WrappedPositions ==
    {"proxies", "host", "static", "staticPages", "archive", "packagename", "remove"}

\* C15: package writes a handler directory (the copied module, index.js,
\* function.json) for a page exactly when the page is neither static nor
\* special: no file of a handler directory is ever written or archived for
\* another page, and behind the handler loop, and in the archive, every
\* such page has its whole directory.
C15_HandlerIffDynamic ==
    \A i \in DOMAIN compiled :
        LET m == compiled[i]
            dynamic == ~m.prerendered /\ ~m.reserved
        IN  /\ HasHandlerFile(fs.pages \cup fs.archive, m.sourcePath) => dynamic
            /\ (pc \in WrappedPositions /\ dynamic) => HasHandler(fs.pages, m.sourcePath)
            /\ (fs.archived /\ dynamic) => HasHandler(fs.archive, m.sourcePath)

\* the archive of a tree with a special page and a dynamic page
C15_Witness ==
    /\ fs.archived
    /\ \E i, j \in DOMAIN compiled :
          /\ compiled[i].reserved
          /\ ~compiled[j].reserved /\ ~compiled[j].prerendered
          /\ HasHandler(fs.archive, compiled[j].sourcePath)

---------------------------------------------------------------------------
(* C16 *)

\* the module of the compiled tree at src
ModuleAt(src) == CHOOSE m \in {compiled[i] : i \in DOMAIN compiled} : m.sourcePath = src

\* the rows of proxies.json, once written
ProxyRows == {fs.proxies[i] : i \in DOMAIN fs.proxies}

\* C16: no row of proxies.json is the row of a special page, although the
\* page list handed to proxiesJson holds the special pages.
C16_NoSpecialRoute ==
    \A row \in ProxyRows : ~ModuleAt(row.page).reserved

\* proxies.json written from a page list that holds a special page
C16_Witness ==
    /\ File("proxies.json", "") \in fs.pages
    /\ ProxyRows # {}
    /\ \E i \in DOMAIN buildOutput : buildOutput[i].isSpecial

---------------------------------------------------------------------------
(* C17 *)

\* the compiler marked a module both reserved and pre-rendered
BothMarked == \E i \in DOMAIN compiled : compiled[i].reserved /\ compiled[i].prerendered

\* the positions of deploy() and configureAppSettings()
DeployPositions ==
    {"group", "account", "container", "permission", "functionapp",
     "runFromPackage", "upload", "backoff", "assets", "public", "appSettings"}

\* the positions of a deploy-mode run behind the scan of the build output
PastScan == {"wrap"} \cup WrappedPositions \cup DeployPositions

\* the run is behind the scan, or it is a deploy that came to its end
ScanPassed == pc \in PastScan \/ (pc = "done" /\ ~TeardownRequested)

\* C17: every page package works on has one kind; a tree with a module
\* marked both static and special is rejected by the scan: the run goes no
\* further than the scan, where it fails, and no file is written for any
\* page: no asset copy, no handler, no proxy row.
C17_OneKind ==
    /\ \A i \in DOMAIN buildOutput :
          LET p == buildOutput[i]
          IN  /\ p.kind \in {"Static", "Special", "Dynamic"}
              /\ p.isStatic <=> p.kind = "Static"
              /\ p.isSpecial <=> p.kind = "Special"
    /\ BothMarked =>
          /\ ~ScanPassed
          /\ buildOutput = None
          /\ fs = NoFiles
          /\ \A cmd \in DeployCmds : ~Invoked(cmd)

\* a tree with a module marked both, rejected as a configuration error
C17_Witness ==
    /\ BothMarked
    /\ Len(compiled) = 2
    /\ pc = "failed"
    /\ failedMessage = "ConfigurationError"

---------------------------------------------------------------------------
(* C18 *)

SamePlace(a, b) ==
    /\ a.capture = b.capture
    /\ a.capture = "none" => a.name = b.name

\* p has a literal segment where q has a parameter, and is q elsewhere
LiteralForParameter(p, q) ==
    /\ Len(p) = Len(q)
    /\ \A k \in DOMAIN p :
          \/ SamePlace(p[k], q[k])
          \/ p[k].capture = "none" /\ q[k].capture = "one"
    /\ \E k \in DOMAIN p : p[k].capture = "none" /\ q[k].capture = "one"

\* q is a catch-all over a prefix, p a parameter route under the same prefix
ParameterUnderCatchAll(p, q) ==
    /\ q # <<>>
    /\ q[Len(q)].capture \in {"oneOrMore", "zeroOrMore"}
    /\ Len(p) >= Len(q)
    /\ \A k \in 1..(Len(q) - 1) : SamePlace(p[k], q[k])
    /\ \A k \in Len(q)..Len(p) : p[k].capture \in {"none", "one"}
    /\ \E k \in Len(q)..Len(p) : p[k].capture = "one"

StrictSpecialization(p, q) ==
    LiteralForParameter(p, q) \/ ParameterUnderCatchAll(p, q)

\* C18: no two rows of a generated proxy table have the same pattern, and
\* of two rows the one whose pattern is a strict specialization of the
\* other's stands earlier, whatever the order of discovery.
C18_UniqueAndOrdered ==
    \A i, j \in DOMAIN fs.proxies :
        /\ i # j => fs.proxies[i].pattern # fs.proxies[j].pattern
        /\ StrictSpecialization(fs.proxies[i].pattern, fs.proxies[j].pattern)
              => i < j

---------------------------------------------------------------------------
(* C19 *)

IsDynamicModule(m) == ~m.reserved /\ ~m.prerendered

\* two dynamic modules of the tree have the same route
AmbiguousModules ==
    \E i, j \in DOMAIN compiled :
        /\ i # j
        /\ IsDynamicModule(compiled[i])
        /\ IsDynamicModule(compiled[j])
        /\ compiled[i].routeSegments = compiled[j].routeSegments

\* C19: when two dynamic pages have the same pattern there is never a
\* proxy table, an archive or a deploy command, and the run that gets to
\* the proxy table fails there with AmbiguousRoute.
C19_AmbiguousRouteFails ==
    AmbiguousModules =>
        /\ fs.proxies = None
        /\ File("proxies.json", "") \notin fs.pages
        /\ ~fs.archived
        /\ \A cmd \in DeployCmds : ~Invoked(cmd)
        /\ ScanPassed => pc \in {"wrap", "proxies"}
        /\ (/\ pc = "failed"
            /\ buildOutput # None
            /\ \A i \in DOMAIN compiled : HasHandler(fs.pages, compiled[i].sourcePath))
              => failedMessage = "AmbiguousRoute"

\* both pages wrapped, then the proxy table refused
C19_Witness ==
    /\ AmbiguousModules
    /\ pc = "failed"
    /\ failedMessage = "AmbiguousRoute"
    /\ \A i \in DOMAIN compiled : HasHandler(fs.pages, compiled[i].sourcePath)

---------------------------------------------------------------------------
(* C20 *)

\* a module of the tree has a catch-all segment before its last position
MalformedModules ==
    \E i \in DOMAIN compiled :
        LET segs == compiled[i].routeSegments
        IN  \E k \in DOMAIN segs :
                /\ k < Len(segs)
                /\ segs[k].kind \in {"catchAll", "optionalCatchAll"}

\* C20: when a module of the tree has a catch-all or optional catch-all
\* segment before its last position, the scan returns no page at all and
\* the run ends there: no handler, proxy table, asset copy or archive is
\* written for any page, and the failure of the classification is
\* MalformedRoute.
C20_MalformedRouteAtomic ==
    MalformedModules =>
        /\ buildOutput = None
        /\ fs.pages = {} /\ fs.proxies = None /\ fs.assets = {} /\ ~fs.archived
        /\ ~ScanPassed
        /\ (pc = "failed" /\ Succeeded("next build")) =>
              failedMessage \in {"MalformedRoute", PackageError}

\* a well-formed dynamic page and a malformed one: nothing for either
C20_Witness ==
    /\ MalformedModules
    /\ \E i \in DOMAIN compiled :
          IsDynamicModule(compiled[i]) /\ ~Malformed(compiled[i].routeSegments)
    /\ pc = "failed"
    /\ failedMessage = "MalformedRoute"

---------------------------------------------------------------------------
(* C21 *)

PathSegments == {"blog", "hello", "a", "b", "c"}

\* the request paths of at most three segments
RequestPaths == UNION {[1..k -> PathSegments] : k \in 0..3}

\* the pattern of the row of proxies.json for the page at src
RowPattern(src) == (CHOOSE row \in ProxyRows : row.page = src).pattern

HasRow(src) == \E row \in ProxyRows : row.page = src

\* C21: in a generated proxy table a parameter captures exactly one path
\* segment: the pattern of blog/[slug] matches /blog/hello with slug = hello
\* and matches neither /blog nor /blog/a/b, and any path a pattern without
\* catch-all matches has as many segments as the pattern; the pattern of
\* [...all] matches /a, /a/b and /a/b/c, and every path of one segment or
\* more, with all = the whole path.
C21_ParameterMatchesOneSegment ==
    /\ HasRow("blog/[slug].js") =>
          LET p == RowPattern("blog/[slug].js")
          IN  /\ Match(p, <<"blog", "hello">>) =
                    [matched |-> TRUE, captures |-> {<<"slug", <<"hello">>>>}]
              /\ ~Match(p, <<"blog">>).matched
              /\ ~Match(p, <<"blog", "a", "b">>).matched
    /\ HasRow("[...all].js") =>
          LET p == RowPattern("[...all].js")
          IN  /\ \A path \in {<<"a">>, <<"a", "b">>, <<"a", "b", "c">>} :
                    Match(p, path) =
                        [matched |-> TRUE, captures |-> {<<"all", path>>}]
              /\ \A path \in RequestPaths :
                    Match(p, path).matched <=> path # <<>>
    /\ \A row \in ProxyRows :
          (\A k \in DOMAIN row.pattern : row.pattern[k].capture \in {"none", "one"}) =>
              \A path \in RequestPaths :
                  Match(row.pattern, path).matched =>
                      /\ Len(path) = Len(row.pattern)
                      /\ \A k \in DOMAIN row.pattern :
                            row.pattern[k].capture = "one" =>
                                <<row.pattern[k].name, <<path[k]>>>>
                                    \in Match(row.pattern, path).captures

\* a proxy table with the rows of blog/[slug] and of [...all]
C21_Witness ==
    /\ File("proxies.json", "") \in fs.pages
    /\ HasRow("blog/[slug].js")
    /\ HasRow("[...all].js")

---------------------------------------------------------------------------
(* C22 *)

\* the words of a command line, as a set
Words(ws) == {ws[k] : k \in DOMAIN ws}

\* C22: the settings command is issued only when the app-settings input
\* is supplied, at most once, after every deploy step has succeeded, and
\* the words it hands to az hold "key=value" for every pair of the
\* mapping; without the input no settings command is issued and a run
\* whose deploy succeeded is not marked failed.
C22_AppSettingsApplied ==
    LET mapping == input.appSettings.mapping
    IN  /\ Invoked(AppSettingsCmd) => input.appSettings.present
        /\ Cardinality(CallsOf(AppSettingsCmd)) <= 1
        /\ \A i \in CallsOf(AppSettingsCmd) :
              /\ \A k \in DOMAIN mapping :
                    (mapping[k][1] \o <<"=">> \o mapping[k][2])
                        \in Words(calls[i].settings)
              /\ \A cmd \in DeployCmds \ {AppSettingsCmd} :
                    \E j \in 1..(i - 1) : calls[j].cmd = cmd /\ calls[j].ok
        /\ (~input.appSettings.present
            /\ Succeeded("az storage blob upload-batch public")) =>
              /\ pc \in {"appSettings", "done"}
              /\ failed = 0

---------------------------------------------------------------------------
(* C23 *)

ProvisioningCmds ==
    {"az group create", "az storage account create",
     "az storage container create", "az storage container set-permission",
     "az functionapp create",
     "az functionapp config appsettings set WEBSITE_RUN_FROM_PACKAGE"}

\* C23: a provisioning command that fails is the run's last command, and
\* the run is marked failed once, with the message of the command's own
\* error.
C23_ProvisioningErrorVerbatim ==
    \A i \in DOMAIN calls :
        (calls[i].cmd \in ProvisioningCmds /\ ~calls[i].ok) =>
            /\ i = Len(calls)
            /\ pc = "failed"
            /\ failed = 1
            /\ failedMessage = ExecError(calls[i].cmd)

C23_Witness ==
    /\ pc = "failed"
    /\ calls # <<>>
    /\ calls[Len(calls)].cmd = "az functionapp create"
    /\ ~calls[Len(calls)].ok
    /\ failedMessage = ExecError("az functionapp create")

---------------------------------------------------------------------------
(* C24 *)

\* the message of the error the rejected command cmd returned
Cause(cmd) == IF cmd = "next build" THEN NextBuildError ELSE ExecError(cmd)

\* the texts by which the run's steps name their phase in front of a cause
PhasePrefixes ==
    {"", "Error: ",
     "Could not deploy package to Azure function app: ",
     AssetsError \o ": ", PublicAssetsError \o ": "}

\* C24: when a command fails for good, the message the run is marked
\* failed with holds the message of the error the failed command returned
\* (alone, or behind the text naming the phase).
C24_FailureNamesCause ==
    \A i \in DOMAIN calls :
        Unrecovered(i) =>
            /\ pc = "failed"
            /\ failedMessage \in {p \o Cause(calls[i].cmd) : p \in PhasePrefixes}

---------------------------------------------------------------------------
(* C25 *)

\* the output directory and the container the caller's configuration asks for
ExpectedOutputDir ==
    IF input.configuration.buildOutputDir = "" THEN "build"
    ELSE input.configuration.buildOutputDir

ExpectedContainer ==
    IF input.configuration.assetsContainerName = <<>>
    THEN <<"a", "s", "s", "e", "t", "s">>
    ELSE input.configuration.assetsContainerName

\* the directories a command of the run reads from
ExpectedSources ==
    {None, <<ExpectedOutputDir, "package.zip">>, <<ExpectedOutputDir, "assets">>}

\* C25: the loaded configuration holds the caller's output directory and
\* container, "build" and "assets" where the caller gave none; outside
\* pull-request mode every command that names the function app, the
\* storage account, the container or a directory of the build output
\* names exactly these configured or defaulted values.
C25_DefaultsAndSuppliedValues ==
    config.loaded =>
        /\ config.buildOutputDir = ExpectedOutputDir
        /\ \A i \in DOMAIN calls : calls[i].source \in ExpectedSources
        /\ ~config.isPullRequest =>
              /\ config.assetsContainerName = ExpectedContainer
              /\ config.name = input.configuration.name
              /\ config.storageAccount = input.configuration.storageAccount
              /\ \A i \in DOMAIN calls :
                    /\ calls[i].name \in {None, input.configuration.name}
                    /\ calls[i].storageAccount \in
                          {None, input.configuration.storageAccount}
                    /\ calls[i].container \in {None, ExpectedContainer}

\* a run with neither value configured has uploaded build/assets to the
\* container assets
C25_Witness ==
    /\ config.loaded
    /\ input.configuration.buildOutputDir = ""
    /\ input.configuration.assetsContainerName = <<>>
    /\ ~config.isPullRequest
    /\ \E i \in DOMAIN calls :
          /\ calls[i].cmd = "az storage blob upload-batch _next"
          /\ calls[i].source = <<"build", "assets">>
          /\ calls[i].container = <<"a", "s", "s", "e", "t", "s">>
          /\ calls[i].storageAccount = input.configuration.storageAccount

\* a run with both values configured has uploaded from the caller's
\* directory to the caller's container
C25_WitnessSupplied ==
    /\ input.configuration.buildOutputDir = "out"
    /\ \E i \in DOMAIN calls :
          /\ calls[i].cmd = "az storage blob upload-batch _next"
          /\ calls[i].source = <<"out", "assets">>
          /\ calls[i].container = input.configuration.assetsContainerName
          /\ calls[i].container # <<>>

---------------------------------------------------------------------------
(* C26 *)

CreateCmd == "az functionapp create"

\* C26: a run issues the function-app create command at most once, and
\* exactly once when its deploy went past that step; the command carries
\* --plan with the configured plan when the configuration has a plan, and
\* --consumption-plan-location with the configured location when it has
\* none.
C26_OneCreateCommand ==
    /\ Cardinality(CallsOf(CreateCmd)) <= 1
    /\ Succeeded("az storage container set-permission")
       /\ pc \notin {"functionapp", "failed"}
          => Cardinality(CallsOf(CreateCmd)) = 1
    /\ \A i \in CallsOf(CreateCmd) :
          IF input.configuration.plan # ""
          THEN /\ calls[i].option = "--plan"
               /\ calls[i].value = input.configuration.plan
          ELSE /\ calls[i].option = "--consumption-plan-location"
               /\ calls[i].value = input.configuration.location

C26_Witness ==
    /\ pc = "done"
    /\ \E i \in CallsOf(CreateCmd) :
          /\ calls[i].ok
          /\ calls[i].option = "--plan"
          /\ calls[i].value = "plan"

C26_WitnessConsumption ==
    /\ pc = "done"
    /\ \E i \in CallsOf(CreateCmd) :
          /\ calls[i].ok
          /\ calls[i].option = "--consumption-plan-location"
          /\ calls[i].value = "westeurope"

---------------------------------------------------------------------------
(* C27 *)

\* the rejected upload attempts among the first two of the run
RetriedUploads ==
    {i \in CallsOf(UploadCmd) :
        /\ ~calls[i].ok
        /\ Cardinality({j \in CallsOf(UploadCmd) : j <= i}) < maxAttempts}

\* the waits of the run: those over, and the one under way
WaitsBegun == waits + (IF pc = "backoff" THEN 1 ELSE 0)

\* C27: the run has waited once for each rejected upload attempt among its
\* first two and for nothing else, so at most twice; a wait under way
\* directly follows a rejected attempt.
C27_WaitAfterRetriedFailure ==
    /\ WaitsBegun = Cardinality(RetriedUploads)
    /\ WaitsBegun <= maxAttempts - 1
    /\ pc = "backoff" =>
          /\ calls[Len(calls)].cmd = UploadCmd
          /\ ~calls[Len(calls)].ok

\* three rejected attempts, two waits, none after the third
C27_Witness ==
    /\ pc = "failed"
    /\ waits = 2
    /\ Cardinality({i \in CallsOf(UploadCmd) : ~calls[i].ok}) = 3

\* a wait, then a successful attempt and no further wait
C27_WitnessRecovered ==
    /\ pc = "done"
    /\ waits = 1
    /\ Succeeded(UploadCmd)

---------------------------------------------------------------------------
(* C28 *)

\* files holds proxies.json, host.json and the whole handler directory of
\* every page package wraps
PagesTreeComplete(files) ==
    /\ File("proxies.json", "") \in files
    /\ File("host.json", "") \in files
    /\ \A k \in DOMAIN SsrPages(buildOutput) :
          HasHandler(files, SsrPages(buildOutput)[k].sourcePath)

\* C28: when the archive is about to be written the pages tree holds every
\* handler directory, proxies.json and host.json, and the finished archive
\* holds them; packagename.txt exists only with a finished archive; the
\* pages tree is deleted only with a finished archive and packagename.txt
\* written; so a run whose archiving failed has neither written
\* packagename.txt nor deleted the tree.
C28_PackageStepsInOrder ==
    /\ pc = "archive" => PagesTreeComplete(fs.pages)
    /\ fs.archived => PagesTreeComplete(fs.archive)
    /\ (pc = "packagename" \/ fs.packagename # "") => fs.archived
    /\ (pc = "remove" \/ fs.removed) => fs.archived /\ fs.packagename # ""
    /\ (pc = "failed" /\ ~fs.archived) => fs.packagename = "" /\ ~fs.removed

\* the tree is deleted, the archive holds a handler directory
C28_Witness ==
    /\ fs.removed
    /\ fs.archived
    /\ fs.packagename = "package.zip"
    /\ SsrPages(buildOutput) # <<>>
    /\ PagesTreeComplete(fs.archive)

\* archiving failed: everything before it was written, the tree is in place
C28_WitnessArchiveFailed ==
    /\ pc = "failed"
    /\ failedMessage = PackageError
    /\ ~fs.archived
    /\ PagesTreeComplete(fs.pages)
    /\ File("static", "") \in fs.assets
    /\ \A k \in DOMAIN StaticPages(buildOutput) :
          File("pages", StaticPages(buildOutput)[k].sourcePath) \in fs.assets
    /\ fs.packagename = ""
    /\ ~fs.removed

---------------------------------------------------------------------------
(* C29 *)

\* package() has returned: archive, packagename.txt and the removal done
Packaged == fs.archived /\ fs.packagename # "" /\ fs.removed

\* C29: a command of deploy (provisioning, upload, app settings) is
\* invoked only in a run whose build succeeded and whose packaging ran to
\* its end; a run that failed in build or in packaging has invoked none.
C29_NoDeployAfterFailedPackage ==
    /\ (\E cmd \in DeployCmds : Invoked(cmd)) =>
          Succeeded("next build") /\ Packaged
    /\ (pc = "failed" /\ ~(Succeeded("next build") /\ Packaged)) =>
          \A cmd \in DeployCmds : ~Invoked(cmd)

\* packaging failed with part of the pages tree written; nothing deployed
C29_Witness ==
    /\ pc = "failed"
    /\ Succeeded("next build")
    /\ fs.pages # {}
    /\ ~Packaged
    /\ \A cmd \in DeployCmds : ~Invoked(cmd)

\* the build failed; nothing packaged or deployed
C29_WitnessBuild ==
    /\ pc = "failed"
    /\ failedMessage = NextBuildError
    /\ fs = NoFiles
    /\ \A cmd \in DeployCmds : ~Invoked(cmd)

---------------------------------------------------------------------------
(* C30 *)

\* C30: a run that ended marked failed has not reported the address of
\* the deployed application.
C30_UrlOnlyOnSuccess ==
    pc = "failed" => reported = None

---------------------------------------------------------------------------
(* C31 *)

\* the container the caller's configuration names, "assets" without one
BaseContainer ==
    IF input.configuration.assetsContainerName = <<>> THEN DefaultContainer
    ELSE input.configuration.assetsContainerName

\* C31: in a teardown run the only deletions are those of a function app,
\* a container and a telemetry resource; the function app and the
\* telemetry resource deleted carry the suffix "-<pull request id>" and
\* are not the caller's base function app, the container deleted carries
\* the suffix and is not the caller's base container.
C31_TeardownOnlyPullRequestResources ==
    TeardownRequested =>
        \A i \in DOMAIN calls :
            /\ calls[i].cmd \in CleanCmds \cup {"az --version"}
            /\ calls[i].cmd \in {"az functionapp delete",
                                 "az monitor app-insights component delete"} =>
                  /\ EndsWith(calls[i].name, IdSuffix(input.pullRequestId))
                  /\ calls[i].name # input.configuration.name
            /\ calls[i].cmd = "az storage container delete" =>
                  /\ EndsWith(calls[i].container, IdSuffix(input.pullRequestId))
                  /\ calls[i].container # BaseContainer

---------------------------------------------------------------------------
(* C32 *)

\* the commands that name the assets container and its storage account
ContainerCmds ==
    {"az storage container create", "az storage container set-permission",
     "az storage blob upload-batch _next", "az storage blob upload-batch public"}

\* the address of a container of a storage account
BlobUrl(storageAccount, container) ==
    <<"https://">> \o storageAccount \o <<".blob.core.windows.net/">>
        \o container \o <<"/">>

\* the base addresses of the rows of proxies.json that point to assets
AssetBases ==
    {fs.proxies[k].target.base :
        k \in {j \in DOMAIN fs.proxies : fs.proxies[j].target.kind = "asset"}}

\* C32: every asset base address of proxies.json is the address of the
\* container and storage account named by every container command and
\* every asset upload of the same run, and the storage account is the one
\* the run creates; in pull-request mode this is not the address of the
\* caller's base container.
C32_AssetBaseNamesDeployedContainer ==
    \A base \in AssetBases :
        /\ \A i \in DOMAIN calls :
              /\ calls[i].cmd \in ContainerCmds =>
                    base = BlobUrl(calls[i].storageAccount, calls[i].container)
              /\ calls[i].cmd = "az storage account create" =>
                    base = BlobUrl(calls[i].storageAccount,
                                   config.assetsContainerName)
        /\ PullRequestMode =>
              base # BlobUrl(input.configuration.storageAccount, BaseContainer)

\* pull-request mode: proxies.json has an asset row, the assets are uploaded
C32_Witness ==
    /\ PullRequestMode
    /\ AssetBases # {}
    /\ Succeeded("az storage blob upload-batch _next")
    /\ Succeeded("az storage blob upload-batch public")

\* the same outside pull-request mode
C32_WitnessNormal ==
    /\ config.loaded
    /\ ~config.isPullRequest
    /\ AssetBases # {}
    /\ Succeeded("az storage blob upload-batch _next")

---------------------------------------------------------------------------
(* C33 *)

\* C33: in a run that is not a teardown no step starts or records a
\* command of clean, every command recorded stays recorded as it was, and
\* once the run has failed no step changes the commands, the commands in
\* flight or the files written.
C33_NoRollback ==
    [][~TeardownRequested =>
          /\ inflight' \cap CleanCmds = {}
          /\ \A i \in DOMAIN calls' : calls'[i].cmd \notin CleanCmds
          /\ Len(calls') >= Len(calls)
          /\ SubSeq(calls', 1, Len(calls)) = calls
          /\ pc = "failed" => UNCHANGED <<calls, inflight, fs>>]_vars

\* a deploy failed at its last upload, behind six successful provisioning
\* steps and the package upload; no deletion was invoked
C33_Witness ==
    /\ ~TeardownRequested
    /\ pc = "failed"
    /\ failedMessage = PublicAssetsError
    /\ Succeeded("az functionapp create")
    /\ Succeeded(UploadCmd)
    /\ Succeeded("az storage blob upload-batch _next")
    /\ \A cmd \in CleanCmds : ~Invoked(cmd)

---------------------------------------------------------------------------
(* C34 *)

\* the message loadConfig's template for the wrong event is written to give
WrongEventMessage(eventName) ==
    "Unable to run in pull request mode when event is not 'pull_request'. Actual event: "
        \o eventName

\* C34: when the configuration is supplied and pull-request mode is
\* requested on an event other than pull_request, the run is marked
\* failed with the message that names the actual event.
C34_WrongEventMessage ==
    (WrongEvent /\ input.configuration.present /\ pc = "failed") =>
        failedMessage = WrongEventMessage(input.eventName)

====
